---- MODULE Spec2Model ----
(***************************************************************************)
(* State-machine model of epsteinator.py: main(), the interactive          *)
(* parameter collection, and redact_pdf().                                 *)
(*                                                                         *)
(* Strings are sequences of one-character strings.  The PDF library        *)
(* (pymupdf) is an external collaborator: the number of pages, the text    *)
(* of a page and the boxes of a search are chosen when the call is made,   *)
(* and a page searched twice for the same needle gives the same boxes.     *)
(* Any call into the library may raise.  A print of a line holding a       *)
(* non-ASCII glyph raises UnicodeEncodeError when sys.stdout cannot        *)
(* encode it; the other prints succeed.                                    *)
(*                                                                         *)
(* Spec starts in main(); SpecRedact starts at a call of redact_pdf()      *)
(* with every combination of arguments.                                    *)
(***************************************************************************)
EXTENDS Integers, Sequences, FiniteSets, TLC

\* ---------------------------------------------------------------- bounds
MaxPages == 2      \* pages of the opened document
MaxTerms == 2      \* length of the term sequence
MaxBoxes == 3      \* boxes the searches of one document return in total
MaxTextLen == 2    \* characters of the extracted text of one document in total

\* ---------------------------------------------------------------- inputs
Chars == {"a", "A"}

\* the terms a user may pass: a letter, a repetition, an unbalanced "("
TermSet == {<<"a">>, <<"a", "+">>, <<"(">>}

TermSeqs == UNION {[1..n -> TermSet] : n \in 1..MaxTerms}

Texts == UNION {[1..n -> Chars] : n \in 0..MaxTextLen}

Range(s) == {s[i] : i \in DOMAIN s}

\* file-system paths: directory, stem (a sequence of name pieces), suffix
NoPath == [dir |-> "", stem |-> <<>>, suffix |-> ""]

\* the path given as input
InputPaths == {[dir |-> "docs", stem |-> <<"report">>, suffix |-> ".pdf"]}

\* the paths given as output: the input itself and another file beside it
OutputPaths == InputPaths \cup
               {[dir |-> "docs", stem |-> <<"report", "_redacted">>, suffix |-> ".pdf"]}

\* str(Path(p).parent / f"{Path(p).stem}_redacted.pdf")
DefaultOutput(p) ==
    [dir |-> p.dir, stem |-> p.stem \o <<"_redacted">>, suffix |-> ".pdf"]

\* ---------------------------------------------------------------- regex
Lower(c) == IF c = "A" THEN "a" ELSE c

\* re.compile succeeds on  c  and  c+  (c a letter) and raises re.error on "("
ReValid(term) ==
    \/ Len(term) = 1 /\ term[1] \in Chars
    \/ Len(term) = 2 /\ term[1] \in Chars /\ term[2] = "+"

\* re.compile(term, re_flags), re_flags = 0 if case_sensitive else re.IGNORECASE
ReCompile(term, cs) ==
    [kind |-> IF Len(term) = 2 THEN "plus" ELSE "lit", ch |-> term[1], icase |-> ~cs]

CharMatch(pat, d) == IF pat.icase THEN Lower(pat.ch) = Lower(d) ELSE pat.ch = d

RECURSIVE RunEnd(_, _, _)
\* last index of the greedy run of matching characters that starts at j
RunEnd(pat, text, j) ==
    IF j < Len(text) /\ CharMatch(pat, text[j + 1]) THEN RunEnd(pat, text, j + 1) ELSE j

RECURSIVE FindFrom(_, _, _)
FindFrom(pat, text, i) ==
    IF i > Len(text) THEN <<>>
    ELSE IF ~CharMatch(pat, text[i]) THEN FindFrom(pat, text, i + 1)
    ELSE LET j == IF pat.kind = "plus" THEN RunEnd(pat, text, i) ELSE i
         IN  <<SubSeq(text, i, j)>> \o FindFrom(pat, text, j + 1)

\* [m.group() for m in pattern.finditer(page_text)]: non-overlapping, left to right
FindIter(pat, text) == FindFrom(pat, text, 1)


\* ---------------------------------------------------------------- state
VARIABLES
    pc,               \* position in main() / redact_pdf()
    interactive,      \* len(sys.argv) == 1
    stdoutEncodes,    \* sys.stdout can encode the box-drawing and symbol glyphs
    files,            \* paths for which os.path.isfile holds
    input_path, output_path, terms, use_regex, case_sensitive,  \* redact_pdf arguments
    numPages,         \* pages of the opened document
    opened,           \* pymupdf.open returned
    handleOpen,       \* the document handle is open (not yet closed)
    pageText,         \* page -> text page.get_text() returned
    found,            \* <<page, needle>> -> number of boxes page.search_for returned
    patterns,         \* list of [term, pattern]
    page_num,         \* enumerate(doc, 1)
    termIdx,          \* position of the inner loop in terms / patterns
    matches,          \* matched substrings of the current pattern not yet searched
    pending,          \* boxes of text_instances not yet marked
    page_redactions, stats, total_redactions,
    marksOn,          \* page -> redaction annotations added to it
    flattened,        \* page -> number of apply_redactions calls
    progress,         \* the "Page n: k redaction(s)" lines printed
    saveTarget,       \* target of the doc.save call issued, NoPath if none
    saveDone,         \* doc.save returned
    result,           \* what redact_pdf returned
    exitCode,         \* process exit status, -1 while running
    endedBy           \* how main() ended

envVars == <<interactive, stdoutEncodes, files>>
argVars == <<input_path, output_path, terms, use_regex, case_sensitive>>
docVars == <<numPages, opened, handleOpen>>
adapterVars == <<pageText, found>>
loopVars == <<patterns, page_num, termIdx, matches, pending, page_redactions>>
accVars == <<stats, total_redactions>>
histVars == <<marksOn, flattened, progress>>
saveVars == <<saveTarget, saveDone>>
procVars == <<exitCode, endedBy>>

vars == <<pc, envVars, argVars, docVars, adapterVars, loopVars, accVars, histVars,
          saveVars, result, procVars>>

NoResult == [status |-> "none", error |-> "", term |-> <<>>,
             total_redactions |-> 0, stats |-> <<>>, output_path |-> NoPath]

Failure(error, term) == [status |-> "fail", error |-> error, term |-> term,
                         total_redactions |-> 0, stats |-> <<>>, output_path |-> NoPath]

Success(total, st, out) == [status |-> "ok", error |-> "", term |-> <<>>,
                            total_redactions |-> total, stats |-> st, output_path |-> out]

\* everything redact_pdf and main have not touched yet
Fresh ==
    /\ numPages = 0 /\ opened = FALSE /\ handleOpen = FALSE
    /\ pageText = <<>> /\ found = <<>>
    /\ patterns = <<>> /\ page_num = 0 /\ termIdx = 0 /\ matches = <<>>
    /\ pending = 0 /\ page_redactions = 0
    /\ stats = <<>> /\ total_redactions = 0
    /\ marksOn = <<>> /\ flattened = <<>> /\ progress = <<>>
    /\ saveTarget = NoPath /\ saveDone = FALSE
    /\ result = NoResult
    /\ exitCode = -1 /\ endedBy = "running"

\* the process starts in main()
Init ==
    /\ pc = "main"
    /\ interactive \in BOOLEAN
    /\ stdoutEncodes \in BOOLEAN
    /\ files \in SUBSET InputPaths
    /\ input_path = NoPath /\ output_path = NoPath /\ terms = <<>>
    /\ use_regex = FALSE /\ case_sensitive = TRUE
    /\ Fresh

\* redact_pdf called as a function, with every argument combination
InitRedact ==
    /\ pc = "open"
    /\ interactive = FALSE
    /\ stdoutEncodes \in BOOLEAN
    /\ input_path \in InputPaths
    /\ files = {input_path}
    /\ output_path \in OutputPaths \cup {NoPath}
    /\ terms \in TermSeqs
    /\ use_regex \in BOOLEAN
    /\ case_sensitive \in BOOLEAN
    /\ Fresh


\* ---------------------------------------------------------------- redact_pdf
\* the except clause of redact_pdf: report and return failure; nothing is closed
Handler(error) ==
    /\ result' = Failure(error, <<>>)
    /\ pc' = "returned"

\* doc = pymupdf.open(input_path); stats = {term: 0 ...}; total_redactions = 0
Open ==
    /\ pc = "open"
    /\ \E n \in 1..MaxPages :
          /\ numPages' = n
          /\ marksOn' = [p \in 1..n |-> 0]
          /\ flattened' = [p \in 1..n |-> 0]
    /\ opened' = TRUE
    /\ handleOpen' = TRUE
    /\ stats' = [t \in Range(terms) |-> 0]
    /\ total_redactions' = 0
    /\ pc' = IF use_regex THEN "compile" ELSE "pages"
    /\ UNCHANGED <<envVars, argVars, adapterVars, loopVars, progress, saveVars,
                   result, procVars>>

\* pymupdf.open raises (missing or corrupt file)
OpenRaises ==
    /\ pc = "open"
    /\ Handler("OpenError")
    /\ UNCHANGED <<envVars, argVars, docVars, adapterVars, loopVars, accVars,
                   histVars, saveVars, procVars>>

\* one iteration of the compile loop whose re.compile succeeds
CompileTerm ==
    /\ pc = "compile"
    /\ LET k == Len(patterns) + 1 IN
          /\ ReValid(terms[k])
          /\ patterns' = Append(patterns, [term |-> terms[k],
                                           pattern |-> ReCompile(terms[k], case_sensitive)])
          /\ pc' = IF k = Len(terms) THEN "pages" ELSE "compile"
    /\ UNCHANGED <<envVars, argVars, docVars, adapterVars, page_num, termIdx, matches,
                   pending, page_redactions, accVars, histVars, saveVars, result,
                   procVars>>

\* variant of CompileInvalid: the term that does not compile is taken as a
\* literal character and the loop goes on
CompileInvalidContinues ==
    /\ pc = "compile"
    /\ LET k == Len(patterns) + 1 IN
          /\ ~ReValid(terms[k])
          /\ patterns' = Append(patterns,
                 [term |-> terms[k],
                  pattern |-> [kind |-> "lit", ch |-> terms[k][1], icase |-> ~case_sensitive]])
          /\ pc' = IF k = Len(terms) THEN "pages" ELSE "compile"
    /\ UNCHANGED <<envVars, argVars, docVars, adapterVars, page_num, termIdx, matches,
                   pending, page_redactions, accVars, histVars, saveVars, result,
                   procVars>>

\* one iteration of the compile loop whose re.compile raises re.error:
\* print the message and return the failure naming the term
CompileInvalid ==
    /\ pc = "compile"
    /\ LET k == Len(patterns) + 1 IN
          /\ ~ReValid(terms[k])
          /\ result' = Failure("InvalidRegex", terms[k])
    /\ pc' = "returned"
    /\ UNCHANGED <<envVars, argVars, docVars, adapterVars, loopVars, accVars,
                   histVars, saveVars, procVars>>

\* for page_num, page in enumerate(doc, 1): page_redactions = 0
NextPage ==
    /\ pc = "pages"
    /\ page_num < numPages
    /\ page_num' = page_num + 1
    /\ page_redactions' = 0
    /\ termIdx' = 0
    /\ pc' = IF use_regex THEN "text" ELSE "terms"
    /\ UNCHANGED <<envVars, argVars, docVars, adapterVars, patterns, matches, pending,
                   accVars, histVars, saveVars, result, procVars>>

RECURSIVE SumOver(_, _)
\* sum of f over the keys in `keys`
SumOver(f, keys) ==
    IF keys = {} THEN 0
    ELSE LET k == CHOOSE x \in keys : TRUE
         IN  f[k] + SumOver(f, keys \ {k})

\* characters of text the pages read so far hold
TextSoFar == SumOver([p \in DOMAIN pageText |-> Len(pageText[p])], DOMAIN pageText)

\* boxes the searches made so far returned
BoxesSoFar == SumOver(found, DOMAIN found)

\* page_text = page.get_text()
GetText ==
    /\ pc = "text"
    /\ \E t \in Texts :
          /\ Len(t) <= MaxTextLen - TextSoFar
          /\ pageText' = pageText @@ (page_num :> t)
    /\ pc' = "terms"
    /\ UNCHANGED <<envVars, argVars, docVars, found, loopVars, accVars, histVars,
                   saveVars, result, procVars>>

\* page.search_for(needle) returns n boxes; the same page and needle give the
\* same answer until the page is flattened
SearchFor(needle, n) ==
    IF <<page_num, needle>> \in DOMAIN found
    THEN n = found[<<page_num, needle>>] /\ found' = found
    ELSE found' = found @@ (<<page_num, needle>> :> n)

\* literal mode: text_instances = page.search_for(term, flags=search_flags)
SearchLiteral ==
    /\ pc = "terms"
    /\ ~use_regex
    /\ termIdx < Len(terms)
    /\ termIdx' = termIdx + 1
    /\ \E n \in 0..(MaxBoxes - BoxesSoFar) :
          /\ SearchFor(terms[termIdx + 1], n)
          /\ pending' = n
          /\ pc' = IF n > 0 THEN "marks" ELSE "terms"
    /\ UNCHANGED <<envVars, argVars, docVars, pageText, patterns, page_num, matches,
                   page_redactions, accVars, histVars, saveVars, result, procVars>>

\* regex mode: for term, pattern in patterns: pattern.finditer(page_text)
RegexFind ==
    /\ pc = "terms"
    /\ use_regex
    /\ termIdx < Len(patterns)
    /\ termIdx' = termIdx + 1
    /\ matches' = FindIter(patterns[termIdx + 1].pattern, pageText[page_num])
    /\ pc' = IF matches' = <<>> THEN "terms" ELSE "matches"
    /\ UNCHANGED <<envVars, argVars, docVars, adapterVars, patterns, page_num, pending,
                   page_redactions, accVars, histVars, saveVars, result, procVars>>

\* regex mode: matched_text = match.group(); page.search_for(matched_text)
SearchMatch ==
    /\ pc = "matches"
    /\ matches # <<>>
    /\ matches' = Tail(matches)
    /\ \E n \in 0..(MaxBoxes - BoxesSoFar) :
          /\ SearchFor(Head(matches), n)
          /\ pending' = n
          /\ pc' = IF n > 0 THEN "marks"
                   ELSE IF Tail(matches) = <<>> THEN "terms" ELSE "matches"
    /\ UNCHANGED <<envVars, argVars, docVars, pageText, patterns, page_num, termIdx,
                   page_redactions, accVars, histVars, saveVars, result, procVars>>

\* length of the sequence the inner loop runs over
NumTerms == IF use_regex THEN Len(patterns) ELSE Len(terms)

\* the term the marks of the current text_instances are counted for
CurTerm == IF use_regex THEN patterns[termIdx].term ELSE terms[termIdx]

\* variant of AddMark: the per-term count is raised, the total is not
AddMarkSkipsTotal ==
    /\ pc = "marks"
    /\ pending > 0
    /\ marksOn' = [marksOn EXCEPT ![page_num] = @ + 1]
    /\ stats' = [stats EXCEPT ![CurTerm] = @ + 1]
    /\ page_redactions' = page_redactions + 1
    /\ pending' = pending - 1
    /\ pc' = IF pending > 1 THEN "marks"
             ELSE IF use_regex /\ matches # <<>> THEN "matches" ELSE "terms"
    /\ UNCHANGED <<envVars, argVars, docVars, adapterVars, patterns, page_num, termIdx,
                   matches, total_redactions, flattened, progress, saveVars, result,
                   procVars>>

\* page.add_redact_annot(inst, fill=fill_color); the three counters += 1
AddMark ==
    /\ pc = "marks"
    /\ pending > 0
    /\ marksOn' = [marksOn EXCEPT ![page_num] = @ + 1]
    /\ stats' = [stats EXCEPT ![CurTerm] = @ + 1]
    /\ page_redactions' = page_redactions + 1
    /\ total_redactions' = total_redactions + 1
    /\ pending' = pending - 1
    /\ pc' = IF pending > 1 THEN "marks"
             ELSE IF use_regex /\ matches # <<>> THEN "matches" ELSE "terms"
    /\ UNCHANGED <<envVars, argVars, docVars, adapterVars, patterns, page_num, termIdx,
                   matches, flattened, progress, saveVars, result, procVars>>

\* variant of EndPage: apply_redactions and the progress line run for every page
EndPageFlattensAlways ==
    /\ pc = "terms"
    /\ termIdx = NumTerms
    /\ flattened' = [flattened EXCEPT ![page_num] = @ + 1]
    /\ progress' = Append(progress, <<page_num, page_redactions>>)
    /\ pc' = "pages"
    /\ UNCHANGED <<envVars, argVars, docVars, adapterVars, loopVars, accVars, marksOn,
                   saveVars, result, procVars>>

\* variant of EndPage: the progress line is printed outside the if
EndPagePrintsAlways ==
    /\ pc = "terms"
    /\ termIdx = NumTerms
    /\ IF page_redactions > 0
       THEN flattened' = [flattened EXCEPT ![page_num] = @ + 1]
       ELSE UNCHANGED flattened
    /\ progress' = Append(progress, <<page_num, page_redactions>>)
    /\ pc' = "pages"
    /\ UNCHANGED <<envVars, argVars, docVars, adapterVars, loopVars, accVars, marksOn,
                   saveVars, result, procVars>>

\* if page_redactions > 0: page.apply_redactions(); print the page's progress line
EndPage ==
    /\ pc = "terms"
    /\ termIdx = NumTerms
    /\ IF page_redactions > 0
       THEN /\ flattened' = [flattened EXCEPT ![page_num] = @ + 1]
            /\ progress' = Append(progress, <<page_num, page_redactions>>)
       ELSE UNCHANGED <<flattened, progress>>
    /\ pc' = "pages"
    /\ UNCHANGED <<envVars, argVars, docVars, adapterVars, loopVars, accVars, marksOn,
                   saveVars, result, procVars>>

\* output_path defaults to <stem>_redacted.pdf beside the input
SaveName == IF output_path = NoPath THEN DefaultOutput(input_path) ELSE output_path

\* doc.save(output_path)
Save ==
    /\ pc = "pages"
    /\ page_num = numPages
    /\ saveTarget' = SaveName
    /\ saveDone' = TRUE
    /\ pc' = "close"
    /\ UNCHANGED <<envVars, argVars, docVars, adapterVars, loopVars, accVars, histVars,
                   result, procVars>>

\* doc.save raises (permissions, disk space, saving onto the opened file)
SaveRaises ==
    /\ pc = "pages"
    /\ page_num = numPages
    /\ saveTarget' = SaveName
    /\ Handler("SaveError")
    /\ UNCHANGED <<envVars, argVars, docVars, adapterVars, loopVars, accVars, histVars,
                   saveDone, procVars>>

\* doc.close()
Close ==
    /\ pc = "close"
    /\ handleOpen' = FALSE
    /\ pc' = "summary"
    /\ UNCHANGED <<envVars, argVars, numPages, opened, adapterVars, loopVars, accVars,
                   histVars, saveVars, result, procVars>>

\* the summary prints (box-drawing and bar glyphs) and the success return;
\* a stream that cannot encode the glyphs raises UnicodeEncodeError into the handler
Summary ==
    /\ pc = "summary"
    /\ IF stdoutEncodes
       THEN /\ result' = Success(total_redactions, stats, saveTarget)
            /\ pc' = "returned"
       ELSE Handler("UnicodeEncodeError")
    /\ UNCHANGED <<envVars, argVars, docVars, adapterVars, loopVars, accVars, histVars,
                   saveVars, procVars>>

\* a call into the PDF library raises: get_text, search_for, add_redact_annot,
\* apply_redactions or close
AdapterRaises ==
    /\ \/ pc \in {"text", "matches", "marks", "close"}
       \/ pc = "terms" /\ ~use_regex /\ termIdx < Len(terms)
       \/ pc = "terms" /\ termIdx = NumTerms /\ page_redactions > 0
    /\ Handler("AdapterError")
    /\ UNCHANGED <<envVars, argVars, docVars, adapterVars, loopVars, accVars, histVars,
                   saveVars, procVars>>

NextRedact ==
    \/ Open \/ OpenRaises \/ CompileTerm \/ CompileInvalid
    \/ NextPage \/ GetText \/ SearchLiteral \/ RegexFind \/ SearchMatch
    \/ AddMark \/ EndPage \/ Save \/ SaveRaises \/ Close \/ Summary
    \/ AdapterRaises

SpecRedact == InitRedact /\ [][NextRedact]_vars


\* ---------------------------------------------------------------- main
redactVars == <<docVars, adapterVars, loopVars, accVars, histVars, saveVars, result>>

\* the process ends with `code`
Exit(code, how) ==
    /\ exitCode' = code
    /\ endedBy' = how
    /\ pc' = "exited"

\* CLI mode: parser.parse_args() yields input, terms, -o, -i, -r
ParseArgs ==
    /\ pc = "main"
    /\ ~interactive
    /\ input_path' \in InputPaths
    /\ terms' \in TermSeqs
    /\ output_path' \in OutputPaths \cup {NoPath}
    /\ \E ignore_case \in BOOLEAN : case_sensitive' = ~ignore_case
    /\ use_regex' \in BOOLEAN
    /\ pc' = "cli_check"
    /\ UNCHANGED <<envVars, redactVars, procVars>>

\* if not os.path.isfile(args.input): print the error; sys.exit(1)
CliMissingFile ==
    /\ pc = "cli_check"
    /\ input_path \notin files
    /\ Exit(1, "missing_file")
    /\ UNCHANGED <<envVars, argVars, redactVars>>

\* print the "Starting Redaction" banner (it holds a glyph) and call redact_pdf;
\* an unencodable glyph raises UnicodeEncodeError out of main: exit status 1
StartRedaction ==
    /\ \/ pc = "cli_check" /\ input_path \in files
       \/ pc = "collected"
    /\ IF stdoutEncodes
       THEN pc' = "open" /\ UNCHANGED procVars
       ELSE Exit(1, "uncaught")
    /\ UNCHANGED <<envVars, argVars, redactVars>>

\* interactive mode: get_user_input prints its header (box-drawing glyphs)
InteractiveHeader ==
    /\ pc = "main"
    /\ interactive
    /\ IF stdoutEncodes
       THEN pc' = "prompt_path" /\ UNCHANGED procVars
       ELSE Exit(1, "uncaught")
    /\ UNCHANGED <<envVars, argVars, redactVars>>

\* get_path_with_completion: one pass of the loop; a path that is no file is
\* reported and asked again
PromptPath ==
    /\ pc = "prompt_path"
    /\ \E typed \in InputPaths :
          IF typed \in files
          THEN input_path' = typed /\ pc' = "prompt_rest"
          ELSE UNCHANGED <<input_path, pc>>
    /\ UNCHANGED <<envVars, output_path, terms, use_regex, case_sensitive, redactVars,
                   procVars>>

\* variant of PromptPathInterrupt: the cancellation exits with status 1
PromptPathInterruptExitsOne ==
    /\ pc = "prompt_path"
    /\ Exit(1, "cancelled")
    /\ UNCHANGED <<envVars, argVars, redactVars>>

\* KeyboardInterrupt at the path prompt: print "Operation cancelled."; sys.exit(0)
PromptPathInterrupt ==
    /\ pc = "prompt_path"
    /\ Exit(0, "cancelled")
    /\ UNCHANGED <<envVars, argVars, redactVars>>

\* the rest of get_user_input: regex mode, the term loop (a pattern that does
\* not compile is refused, an empty list is refused), case sensitivity, the
\* output path (an empty answer takes the default)
PromptRest ==
    /\ pc = "prompt_rest"
    /\ \E regex \in BOOLEAN, typed \in TermSeqs, cs \in BOOLEAN,
          out \in OutputPaths \cup {NoPath} :
          LET kept == IF regex THEN SelectSeq(typed, ReValid) ELSE typed IN
          /\ kept # <<>>
          /\ use_regex' = regex
          /\ terms' = kept
          /\ case_sensitive' = cs
          /\ output_path' = IF out = NoPath THEN DefaultOutput(input_path) ELSE out
    /\ pc' = "collected"
    /\ UNCHANGED <<envVars, input_path, redactVars, procVars>>

\* KeyboardInterrupt at a later prompt, caught in main: print; sys.exit(0)
PromptRestInterrupt ==
    /\ pc = "prompt_rest"
    /\ Exit(0, "cancelled")
    /\ UNCHANGED <<envVars, argVars, redactVars>>

\* if result['success']: print and fall off main (status 0); else print; sys.exit(1)
MainExit ==
    /\ pc = "returned"
    /\ IF result.status = "ok" THEN Exit(0, "finished") ELSE Exit(1, "finished")
    /\ UNCHANGED <<envVars, argVars, redactVars>>

NextMain ==
    \/ ParseArgs \/ CliMissingFile \/ StartRedaction
    \/ InteractiveHeader \/ PromptPath \/ PromptPathInterrupt
    \/ PromptRest \/ PromptRestInterrupt \/ MainExit

Next == NextMain \/ NextRedact

Spec == Init /\ [][Next]_vars


\* ---------------------------------------------------------------- properties
Returned == pc = "returned"

ReturnedOk == pc = "returned" /\ result.status = "ok"

\* boxes search_for returned for `needle` on page p (0 if it was not searched)
Boxes(p, needle) ==
    IF <<p, needle>> \in DOMAIN found THEN found[<<p, needle>>] ELSE 0

RECURSIVE SumSeq(_)
SumSeq(q) == IF q = <<>> THEN 0 ELSE Head(q) + SumSeq(Tail(q))

\* sum of the counts st holds for the keys in `keys`
SumStats(st, keys) == SumOver(st, keys)

\* sum over all pages of the boxes returned for the literal term t
LiteralBoxSum(t) == SumSeq([p \in 1..numPages |-> Boxes(p, t)])

\* boxes returned on page p for the substrings of the matches of term t, summed
PageMatchBoxSum(t, p) ==
    LET ms == FindIter(ReCompile(t, case_sensitive), pageText[p])
    IN  SumSeq([i \in 1..Len(ms) |-> Boxes(p, ms[i])])

RegexBoxSum(t) == SumSeq([p \in 1..numPages |-> PageMatchBoxSum(t, p)])

\* the loop over the pages ran to its end
AllPagesProcessed ==
    /\ opened
    /\ page_num = numPages
    /\ \/ pc \in {"pages", "close", "summary"}
       \/ pc = "returned" /\ saveTarget # NoPath

FirstInvalid == CHOOSE i \in 1..Len(terms) :
                   /\ ~ReValid(terms[i])
                   /\ \A j \in 1..(i - 1) : ReValid(terms[j])

\* C1: whenever redact_pdf has returned after opening the document, the
\* document handle has been closed (on the success return, the invalid-regex
\* return and the return taken after an exception)
C1_HandleClosedOnEveryReturn == (Returned /\ opened) => ~handleOpen

\* C2: in regex mode, when a term of the request does not compile, redact_pdf
\* returns a failure whose error names that term (the first one that fails),
\* and at that moment no page has been read or searched, no mark has been
\* added, no page has been flattened and save has not been called
C2_InvalidPatternFailsBeforeAnyPage ==
    (Returned /\ opened /\ use_regex /\ \E i \in 1..Len(terms) : ~ReValid(terms[i]))
    => /\ result.status = "fail"
       /\ result.error = "InvalidRegex"
       /\ result.term = terms[FirstInvalid]
       /\ page_num = 0
       /\ DOMAIN pageText = {}
       /\ DOMAIN found = {}
       /\ total_redactions = 0
       /\ \A p \in 1..numPages : marksOn[p] = 0 /\ flattened[p] = 0
       /\ saveTarget = NoPath
       /\ ~saveDone

\* an invalid pattern after a valid one made the run fail
C2_Witness ==
    /\ Returned /\ opened /\ use_regex
    /\ Len(terms) = 2 /\ ReValid(terms[1]) /\ ~ReValid(terms[2])
    /\ result.error = "InvalidRegex"

\* C3: every return of redact_pdf is either a success with the document saved
\* and every marked page flattened, or a failure with no completed save
C3_SuccessSavedOrFailureUnsaved ==
    Returned =>
       \/ /\ result.status = "ok"
          /\ saveDone
          /\ \A p \in 1..numPages : marksOn[p] > 0 => flattened[p] = 1
       \/ /\ result.status = "fail"
          /\ ~saveDone

\* C4: in a literal-mode run that succeeds, the count returned for each term
\* is the sum over all pages of the boxes search_for returns for that term
C4_LiteralCountIsBoxSum ==
    (ReturnedOk /\ ~use_regex)
    => \A t \in Range(terms) : result.stats[t] = LiteralBoxSum(t)

\* number of positions of the term sequence that hold t
Occurrences(t) == Cardinality({i \in 1..Len(terms) : terms[i] = t})

\* what the code does for C4: the count is the box sum once per listing of the term
LiteralCountPerListing ==
    (ReturnedOk /\ ~use_regex)
    => \A t \in Range(terms) : result.stats[t] = Occurrences(t) * LiteralBoxSum(t)

\* C5 as stated: the exit status is 0 exactly when the redaction succeeded,
\* and 1 otherwise (missing file, failed redaction, cancellation)
C5_ExitZeroOnlyOnSuccess ==
    pc = "exited" => exitCode = (IF result.status = "ok" THEN 0 ELSE 1)

\* C5 amended: the exit status is 0 exactly when the redaction succeeded or the
\* user cancelled during interactive parameter collection, and 1 otherwise
\* (missing input file, redact_pdf failure, output error)
C5_ExitZeroOnSuccessOrCancel ==
    pc = "exited" =>
       exitCode = (IF result.status = "ok" \/ endedBy = "cancelled" THEN 0 ELSE 1)

\* the user interrupted the input-path prompt and the process ended
C5_Witness ==
    /\ pc = "exited" /\ endedBy = "cancelled"
    /\ input_path = NoPath
    /\ exitCode = 0

\* C6: no save is issued whose target is the input path
C6_NeverSavesOntoInput == saveTarget # NoPath => saveTarget # input_path

\* a page not yet left by the loop has no flatten; a page the loop has left
\* was flattened once if it holds marks and never otherwise; later pages are
\* untouched
C7_PageState ==
    opened =>
       \A p \in 1..numPages :
          /\ flattened[p] <= 1
          /\ p < page_num => flattened[p] = (IF marksOn[p] > 0 THEN 1 ELSE 0)
          /\ (p = page_num /\ pc \in {"text", "terms", "matches", "marks"})
                => flattened[p] = 0
          /\ (p = page_num /\ pc \in {"pages", "close", "summary"})
                => flattened[p] = (IF marksOn[p] > 0 THEN 1 ELSE 0)
          /\ p > page_num =>
                /\ marksOn[p] = 0 /\ flattened[p] = 0
                /\ p \notin DOMAIN pageText
                /\ \A k \in DOMAIN found : k[1] # p

\* a flatten happens on the current page with all terms done and marks on it;
\* a mark or a search happens on the current page, before its flatten
C7_Step ==
    (opened /\ opened') =>
       /\ \A p \in 1..numPages :
             /\ flattened'[p] # flattened[p] =>
                   /\ p = page_num /\ pc = "terms" /\ termIdx = NumTerms
                   /\ pending = 0 /\ matches = <<>>
                   /\ marksOn[p] > 0 /\ marksOn'[p] = marksOn[p]
             /\ marksOn'[p] # marksOn[p] => p = page_num /\ flattened[p] = 0
       /\ \A k \in (DOMAIN found') \ (DOMAIN found) :
             k[1] = page_num /\ flattened[k[1]] = 0
       /\ page_num' \in {page_num, page_num + 1}

\* C7: pages are processed in order; a page with marks is flattened exactly
\* once, after all its marks and before any search or mark on a later page; a
\* page without marks is never flattened
C7_FlattenOncePerMarkedPage == [](C7_PageState) /\ [][C7_Step]_vars

\* two terms marked page 1, page 2 got no mark, and the run succeeded
C7_Witness ==
    /\ ReturnedOk /\ numPages = 2
    /\ Len(terms) = 2 /\ terms[1] # terms[2]
    /\ \A t \in Range(terms) : stats[t] > 0
    /\ marksOn[1] > 1 /\ flattened[1] = 1
    /\ marksOn[2] = 0 /\ flattened[2] = 0

HasMarks(e) == e[2] > 0

\* C8 as stated: once all pages are processed, one progress line was printed
\* per page, in page order, with the page's count, zero counts included
C8_ProgressForEveryPage ==
    AllPagesProcessed => progress = [p \in 1..numPages |-> <<p, marksOn[p]>>]

\* C8 amended: once all pages are processed, one progress line was printed for
\* each page with at least one mark, in page order, with the page's count, and
\* none for a page with zero marks
C8_ProgressForMarkedPages ==
    AllPagesProcessed =>
       progress = SelectSeq([p \in 1..numPages |-> <<p, marksOn[p]>>], HasMarks)

\* a page without marks was followed by a page with marks
C8_Witness ==
    /\ AllPagesProcessed /\ numPages = 2
    /\ marksOn[1] = 0 /\ marksOn[2] > 0
    /\ progress = <<<<2, marksOn[2]>>>>

\* C9: in a regex-mode run that succeeds, the count returned for each term is
\* the sum, over all pages and all matches of the term's pattern in the page
\* text, of the boxes search_for returns for the matched substring
C9_RegexCountIsMatchBoxSum ==
    (ReturnedOk /\ use_regex)
    => \A t \in Range(terms) : result.stats[t] = RegexBoxSum(t)

\* what the code does for C9: the count is the match box sum once per listing
RegexCountPerListing ==
    (ReturnedOk /\ use_regex)
    => \A t \in Range(terms) : result.stats[t] = Occurrences(t) * RegexBoxSum(t)

\* total_redactions is the sum of the counts in stats, during the run and in
\* the returned result
C10_TotalIsSum ==
    /\ opened => total_redactions = SumStats(stats, DOMAIN stats)
    /\ result.status = "ok" =>
          /\ result.total_redactions = SumStats(result.stats, DOMAIN result.stats)
          /\ DOMAIN result.stats = Range(terms)

\* neither value decreases, and a mark raises both by exactly one
C10_Step ==
    (opened /\ opened') =>
       /\ total_redactions' >= total_redactions
       /\ \A t \in DOMAIN stats : stats'[t] >= stats[t]
       /\ (marksOn' # marksOn) <=> (total_redactions' = total_redactions + 1)
       /\ (marksOn' # marksOn) <=>
             (SumStats(stats', DOMAIN stats') = SumStats(stats, DOMAIN stats) + 1)
       /\ (marksOn' = marksOn) => (total_redactions' = total_redactions /\ stats' = stats)

\* C10: total_redactions equals the sum of the counts in stats at every point
\* after the statistics are initialised and in the success result, for every
\* term sequence and both modes; both only increase, by one per mark
C10_TotalEqualsSumOfStats == [](C10_TotalIsSum) /\ [][C10_Step]_vars

\* a run with the same term twice succeeded with marks
C10_Witness ==
    /\ ReturnedOk
    /\ Len(terms) = 2 /\ terms[1] = terms[2]
    /\ result.total_redactions >= 2

====
